---- MODULE Spec2Model ----
(***************************************************************************)
(* A model of pystockml/models.py: the windowing function build_dataset,   *)
(* the ArimaRegressor wrapper (fit / _fit / predict / summary), the ARIMA  *)
(* grid search with the TimeSeriesSplit folds of cross_validate_model, and *)
(* the dataset-split functions get_processed_dataset and                   *)
(* get_preprocessed_datasets.                                              *)
(*                                                                         *)
(* Python sequences and arrays are TLA+ sequences; Python's 0-based index  *)
(* i is the TLA+ index i + 1 (see Item and Slice).                         *)
(***************************************************************************)
EXTENDS Integers, Sequences, FiniteSets, TLC

VARIABLES bd, arima, call, gs, ds

vars == <<bd, arima, call, gs, ds>>

\* ------------------------------------------------------------------ bounds

\* Longest table handed to build_dataset.
MaxLen == 7
\* Largest forecast horizon.
MaxShift == 2
\* Largest number of past rows per sample.
MaxLookback == 2
\* Number of feature columns of a 2-D table.
NumCols == 2

\* ----------------------------------------------------------- Python helpers

Min(a, b) == IF a < b THEN a ELSE b
Max(a, b) == IF a > b THEN a ELSE b

\* range(a, b) as the sequence of its values.
Range(a, b) == [k \in 1..(IF b > a THEN b - a ELSE 0) |-> a + k - 1]

\* s[i] for 0 <= i < len(s).
Item(s, i) == s[i + 1]

\* s[lo:hi] for 0 <= lo; hi is clamped to len(s) as numpy does.
Slice(s, lo, hi) == SubSeq(s, lo + 1, Min(hi, Len(s)))

\* The string 'all' a caller may pass as price_column instead of an index.
ALL == -1

\* ------------------------------------------------------------ build_dataset

(* A table is [data, ndim, ncols]: data holds the rows, a row being a      *)
(* sequence of ncols cells (ndim = 2) or one cell (ndim = 1).              *)
(* build_dataset never reads a cell's value, so a table whose cell (r, c)  *)
(* holds the code 10 * r + c stands for every table of that shape, and a   *)
(* cell found in the result tells which row and column it was copied from. *)
Cell(r, c) == 10 * r + c
Table(len, ndim) ==
    [data  |-> [k \in 1..len |->
                  IF ndim = 2 THEN [c \in 1..NumCols |-> Cell(k - 1, c - 1)]
                  ELSE Cell(k - 1, 0)],
     ndim  |-> ndim,
     ncols |-> IF ndim = 2 THEN NumCols ELSE 0]

\* len(values) - shift
Lines(values, shift) == Len(values.data) - shift

\* range(lookback, lines - shift) with one position too many.
ContextEndsOffByOne(values, shift, lookback) ==
    Range(lookback, Lines(values, shift) - shift + 1)

\* for i in range(lookback, lines - shift): the context-end positions.
ContextEnds(values, shift, lookback) ==
    Range(lookback, Lines(values, shift) - shift)

\* values[i-lookback:i+1]
Context(values, i, lookback) ==
    Slice(values.data, i - lookback, i + 1)

\* values[i] for the target: the horizon is forgotten and the target is a row of
\* the context itself.
TargetNoShift(values, i, shift, price_column) ==
    IF price_column = ALL \/ values.ndim = 1
    THEN Item(values.data, i)
    ELSE Item(Item(values.data, i), price_column)

\* values[i+shift], or values[i+shift, price_column]
Target(values, i, shift, price_column) ==
    IF price_column = ALL \/ values.ndim = 1
    THEN Item(values.data, i + shift)
    ELSE Item(Item(values.data, i + shift), price_column)

(* The whole of build_dataset: the loop, then the conversion to arrays.    *)
(* With lookback = 0 x is reshaped to (-1, columns or 1): every one-row    *)
(* context becomes that row; y is reshaped to (-1, columns) for 'all', to  *)
(* (-1, 1) for a column, and to (-1, None) for a 1-D table, which numpy    *)
(* refuses with a TypeError.                                               *)
build_dataset(values, shift, price_column, lookback) ==
    LET ends == ContextEnds(values, shift, lookback)
        x    == [k \in 1..Len(ends) |-> Context(values, ends[k], lookback)]
        y    == [k \in 1..Len(ends) |->
                   Target(values, ends[k], shift, price_column)]
    IN  IF lookback # 0
        THEN [raised |-> "none", x |-> x, y |-> y]
        ELSE IF values.ndim = 1
        THEN [raised |-> "TypeError", x |-> <<>>, y |-> <<>>]
        ELSE [raised |-> "none",
              x |-> [k \in 1..Len(x) |-> x[k][1]],
              y |-> [k \in 1..Len(y) |->
                       IF price_column = ALL THEN y[k] ELSE <<y[k]>>]]

\* The arguments a caller may pass.
BuildArgs ==
    [values : {Table(len, ndim) : len \in 0..MaxLen, ndim \in {1, 2}},
     shift : 1..MaxShift,
     price_column : (0..(NumCols - 1)) \cup {ALL},
     lookback : 0..MaxLookback]

BdIdle == [pc |-> "idle"]

BdInit == bd \in {[pc |-> "call", args |-> a] : a \in BuildArgs}

\* build_dataset runs to its return or to its exception.
BuildDataset ==
    /\ bd.pc = "call"
    /\ LET r == build_dataset(bd.args.values, bd.args.shift,
                              bd.args.price_column, bd.args.lookback)
       IN  bd' = [pc |-> IF r.raised = "none" THEN "return" ELSE "raise",
                  args |-> bd.args, ret |-> r]
    /\ UNCHANGED <<arima, call, gs, ds>>

\* ----------------------------------------------------------- ArimaRegressor

\* A non-finite observation (numpy's nan); finite observations are 1, 2, ...
NaN == 0
\* Longest X handed to predict.
MaxX == 2
\* Number of calls made on one instance after its construction.
MaxCalls == 4

\* Python's None.
None == [none |-> TRUE]

\* The (p, d, q) orders an instance is built with.
Orders == {<<1, 0, 0>>, <<1, 1, 0>>}

(* statsmodels' ARIMA is outside the repository. What the wrapper relies   *)
(* on is modelled: ARIMA(endog, order) copies endog and raises when the    *)
(* differenced series is too short for the order; fit() raises on a series *)
(* with a non-finite observation; a fitted handle is determined by the     *)
(* series and the order it was fitted on; forecast(steps)[0] is a vector   *)
(* of steps values determined by the handle. A forecast is kept as the     *)
(* term [endog, order, step], so that two forecasts are equal exactly when *)
(* they come from the same fit and the same step.                          *)
ArimaRaises(endog, order) == Len(endog) - order[2] <= order[1] + order[3]
FitRaises(endog) == \E k \in 1..Len(endog) : endog[k] = NaN
Forecast(model_fit, steps) ==
    [k \in 1..steps |->
       [endog |-> model_fit.endog, order |-> model_fit.order, step |-> k]]

\* ArimaRegressor.__init__
ArimaNew(order) ==
    [n_ar_params |-> order[1], n_ar_diffs |-> order[2],
     n_ma_params |-> order[3],
     model |-> None, model_fit |-> None,
     \* y_train_ does not exist before fit; nothing reads it before fit sets it.
     y_train_ |-> <<>>]

OrderOf(self) == <<self.n_ar_params, self.n_ar_diffs, self.n_ma_params>>

\* ArimaRegressor._fit: the new self and the exception that left it, if any.
Refit(self) ==
    IF ArimaRaises(self.y_train_, OrderOf(self))
    THEN [self |-> self, exc |-> "ARIMA"]
    ELSE LET m == [endog |-> self.y_train_, order |-> OrderOf(self)]
         IN  IF FitRaises(m.endog)
             THEN [self |-> [self EXCEPT !.model = m], exc |-> "ARIMA.fit"]
             ELSE [self |-> [self EXCEPT !.model = m, !.model_fit = m],
                   exc |-> "none"]

\* ArimaRegressor.fit(X, y): X is not used; the instance itself is returned.
ArimaFit(self, y) ==
    LET r == Refit([self EXCEPT !.y_train_ = y])
    IN  [self |-> r.self, ret |-> IF r.exc = "none" THEN r.self ELSE None,
         exc |-> r.exc, partial |-> <<>>,
         fits |-> IF r.exc = "none" THEN 1 ELSE 0]

\* `if not self.model_fit` read as `if not self.model`.
NotFittedChecksModel(self) == self.model = None

\* if not self.model_fit
NotFitted(self) == self.model_fit = None

\* The scalar branch of predict(X, refit=True), lines 172-175.
PredictScalar(self, x) ==
    LET yhat == Forecast(self.model_fit, 1)
        r    == Refit([self EXCEPT !.y_train_ = Append(self.y_train_, x)])
    IN  IF r.exc # "none"
        THEN [self |-> r.self, ret |-> None, exc |-> r.exc, partial |-> <<>>,
              fits |-> 0]
        ELSE [self |-> r.self, ret |-> yhat, exc |-> "none", partial |-> <<>>,
              fits |-> 1]

\* The loop body without its self._fit().
LoopStepNoRefit(self, x) ==
    [self |-> [self EXCEPT !.y_train_ = Append(self.y_train_, x)],
     exc |-> "none", yhat |-> Forecast(self.model_fit, 1)]

\* One iteration of `for x in X`, lines 179-181.
LoopStep(self, x) ==
    LET yhat == Forecast(self.model_fit, 1)
        r    == Refit([self EXCEPT !.y_train_ = Append(self.y_train_, x)])
    IN  [self |-> r.self, exc |-> r.exc, yhat |-> yhat]

\* The loop of predict(X, refit=True) from element k on; yhat is the list so far.
RECURSIVE PredictLoop(_, _, _, _)
PredictLoop(self, X, k, yhat) ==
    IF k > Len(X)
    THEN [self |-> self, ret |-> yhat, exc |-> "none", partial |-> yhat,
          fits |-> Len(yhat)]
    ELSE LET s == LoopStep(self, X[k])
         IN  IF s.exc # "none"
             THEN [self |-> s.self, ret |-> None, exc |-> s.exc,
                   partial |-> Append(yhat, s.yhat), fits |-> Len(yhat)]
             ELSE PredictLoop(s.self, X, k + 1, Append(yhat, s.yhat))

\* predict(X, refit=False) that forecasts one step whatever len(X) is.
PredictNoRefitOneStep(self, X) ==
    IF X.kind = "scalar"
    THEN [self |-> self, ret |-> None, exc |-> "TypeError", partial |-> <<>>,
          fits |-> 0]
    ELSE [self |-> self, ret |-> Forecast(self.model_fit, 1), exc |-> "none",
          partial |-> <<>>, fits |-> 0]

\* predict(X, refit=False), lines 165-166: len(X) of a scalar is a TypeError.
PredictNoRefit(self, X) ==
    IF X.kind = "scalar"
    THEN [self |-> self, ret |-> None, exc |-> "TypeError", partial |-> <<>>,
          fits |-> 0]
    ELSE [self |-> self, ret |-> Forecast(self.model_fit, Len(X.v)),
          exc |-> "none", partial |-> <<>>, fits |-> 0]

(* ArimaRegressor.predict(X, refit). X is [kind, v]: a scalar v, or a      *)
(* sequence v (anything len() accepts). Were the guard passed with no      *)
(* handle, None.forecast would be an AttributeError.                       *)
ArimaPredict(self, X, refit) ==
    IF NotFitted(self)
    THEN [self |-> self, ret |-> None, exc |-> "NotFittedError",
          partial |-> <<>>, fits |-> 0]
    ELSE IF self.model_fit = None
    THEN [self |-> self, ret |-> None, exc |-> "AttributeError",
          partial |-> <<>>, fits |-> 0]
    ELSE IF ~refit THEN PredictNoRefit(self, X)
    ELSE IF X.kind = "scalar" THEN PredictScalar(self, X.v)
    ELSE PredictLoop(self, X.v, 1, <<>>)

\* ArimaRegressor.summary: the fit's summary (here the handle), or None.
ArimaSummary(self) ==
    [self |-> self, ret |-> IF NotFitted(self) THEN None ELSE self.model_fit,
     exc |-> "none", partial |-> <<>>, fits |-> 0]

SeqsUpTo(S, n) == UNION {[1..k -> S] : k \in 0..n}

\* The series fit is called with: too short for every order, long enough for
\* some, long enough for all, and one holding a non-finite observation.
FitSeries == {<<>>, <<1>>, <<1, 2>>, <<2, 1, 1>>, <<1, NaN, 2>>}
\* The sequences predict is called with: every sequence of finite observations
\* up to MaxX long, and sequences holding a non-finite one.
PredictSeqs == SeqsUpTo({1, 2}, MaxX) \cup {<<NaN>>, <<NaN, 1>>, <<2, NaN>>}
PredictScalars == {1, 2, NaN}
Scalar(v) == [kind |-> "scalar", v |-> v]
Vector(v) == [kind |-> "seq", v |-> v]
NoX == Vector(<<>>)

(* call is the last call made on the instance: the operation, its          *)
(* arguments, the instance before it (pre), what it returned or raised,    *)
(* and whether an internal fit had succeeded before it (ever_pre) and has  *)
(* by now (ever).                                                          *)
Called(op, X, refit, y, pre, r, ever_pre) ==
    [n |-> call.n + 1, op |-> op, X |-> X, refit |-> refit, y |-> y, pre |-> pre,
     ret |-> r.ret, exc |-> r.exc, partial |-> r.partial,
     ever_pre |-> ever_pre,
     ever |-> ever_pre \/ r.fits > 0]

ArimaInit ==
    \E o \in Orders :
       /\ arima = ArimaNew(o)
       /\ call = [n |-> 0, op |-> "__init__", X |-> NoX, refit |-> FALSE, y |-> <<>>,
                  pre |-> ArimaNew(o), ret |-> None, exc |-> "none",
                  partial |-> <<>>, ever_pre |-> FALSE, ever |-> FALSE]

\* fit(X, y), whatever came of the last call: a caller may catch and go on.
Fit ==
    \E y \in FitSeries :
       LET r == ArimaFit(arima, y)
       IN  /\ call.n < MaxCalls
           /\ arima' = r.self
           /\ call' = Called("fit", NoX, FALSE, y, arima, r, call.ever)
           /\ UNCHANGED <<bd, gs, ds>>

\* predict(X) or predict(X, refit=False) with a scalar or a sequence.
PredictKeep ==
    \E X \in {Scalar(v) : v \in PredictScalars}
             \cup {Vector(v) : v \in PredictSeqs \ {<<>>}} :
       LET r == ArimaPredict(arima, X, FALSE)
       IN  /\ call.n < MaxCalls
           /\ arima' = r.self
           /\ call' = Called("predict", X, FALSE, <<>>, arima, r, call.ever)
           /\ UNCHANGED <<bd, gs, ds>>

\* predict(X, refit=True) with a scalar or a sequence.
PredictRefit ==
    \E X \in {Scalar(v) : v \in PredictScalars}
             \cup {Vector(v) : v \in PredictSeqs} :
       /\ call.n < MaxCalls
       /\ LET r == ArimaPredict(arima, X, TRUE)
          IN  /\ arima' = r.self
              /\ call' = Called("predict", X, TRUE, <<>>, arima, r, call.ever)
              /\ UNCHANGED <<bd, gs, ds>>

\* summary()
Summary ==
    LET r == ArimaSummary(arima)
    IN  /\ call.n < MaxCalls
        /\ arima' = r.self
        /\ call' = Called("summary", NoX, FALSE, <<>>, arima, r, call.ever)
        /\ UNCHANGED <<bd, gs, ds>>

\* ------------------------------------- cross_validate_model, grid_search_arima

\* TimeSeriesSplit(n_splits=3)
NSplits == 3
\* Fewest and most samples handed to cross_validate_model.
MaxSamples == 8
\* Largest error a fold evaluation may score; errors are 1..MaxScore.
MaxScore == 3

\* range(a, b, step) for step > 0.
RangeStep(a, b, step) ==
    [k \in 1..(IF b > a THEN (b - a + step - 1) \div step ELSE 0) |->
       a + (k - 1) * step]

(* sklearn's TimeSeriesSplit(n_splits).split over n_samples rows: the test *)
(* blocks are the last n_splits blocks of n_samples // (n_splits + 1)      *)
(* indices, each fold's train indices are all the indices before its test  *)
(* block. Fewer samples than folds is a ValueError.                        *)
TimeSeriesSplit(n_samples, n_splits) ==
    LET n_folds     == n_splits + 1
        test_size   == n_samples \div n_folds
        test_starts == RangeStep(test_size + (n_samples % n_folds),
                                 n_samples, test_size)
        indices     == Range(0, n_samples)
    IN  IF n_folds > n_samples
        THEN [raised |-> "ValueError", folds |-> <<>>]
        ELSE [raised |-> "none",
              folds |-> [k \in 1..Len(test_starts) |->
                  [train |-> Slice(indices, 0, test_starts[k]),
                   test  |-> Slice(indices, test_starts[k],
                                   test_starts[k] + test_size)]]]

\* cv with each fold's pair the wrong way round.
CvFoldsSwapped(split) ==
    [k \in 1..Len(split.folds) |->
       [train |-> split.folds[k].test, test |-> split.folds[k].train]]

\* cv = [(train_index, test_index) for train_index, test_index in tscv.split(X)]
CvFolds(split) ==
    [k \in 1..Len(split.folds) |->
       [train |-> split.folds[k].train, test |-> split.folds[k].test]]

\* X[index] for an index array.
Take(a, index) == [k \in 1..Len(index) |-> Item(a, index[k])]

\* The grid cross_validate_model hands to grid_search_arima, line 323.
ArimaGrid ==
    [params |-> <<1, 3, 5, 10>>, diffs |-> <<0, 1, 2>>, ma_params |-> <<0, 1, 5>>]

(* A model name is kept as the sequence of the code points of its         *)
(* characters (ord), so that lower() and strip() are computed on it. Names *)
(* are made of the characters chr(0)..chr(255).                            *)

\* The characters of that range str.lower() changes: A-Z, and the accented
\* capitals of Latin-1; each one's lower-case form is 32 code points up.
UpperCase == (65..90) \cup (192..214) \cup (216..222)
\* The characters str.strip() drops: those str.isspace() holds of.
Whitespace ==
    {9, 10, 11, 12, 13, 28, 29, 30, 31, 32, 133, 160, 5760}
      \cup (8192..8202) \cup {8232, 8233, 8239, 8287, 12288}

\* str.lower()
Lower(name) ==
    [k \in 1..Len(name) |->
       IF name[k] \in UpperCase THEN name[k] + 32 ELSE name[k]]

\* str.strip(): leading and trailing whitespace is dropped, inner is kept.
RECURSIVE Strip(_)
Strip(name) ==
    IF name = <<>> THEN name
    ELSE IF Head(name) \in Whitespace THEN Strip(Tail(name))
    ELSE IF name[Len(name)] \in Whitespace
    THEN Strip(SubSeq(name, 1, Len(name) - 1))
    ELSE name

\* 'ols ridge huber knn arima lstm'.split()
SupportedModels ==
    {<<111, 108, 115>>,                \* 'ols'
     <<114, 105, 100, 103, 101>>,      \* 'ridge'
     <<104, 117, 98, 101, 114>>,       \* 'huber'
     <<107, 110, 110>>,                \* 'knn'
     <<97, 114, 105, 109, 97>>,        \* 'arima'
     <<108, 115, 116, 109>>}           \* 'lstm'
\* 'arima'
Arima == <<97, 114, 105, 109, 97>>

\* The names cross_validate_model is called with: as listed, in another case,
\* padded with whitespace, with whitespace inside, and unsupported.
ModelNames ==
    {<<97, 114, 105, 109, 97>>,              \* 'arima'
     <<32, 65, 82, 73, 77, 65, 10>>,         \* ' ARIMA\n'
     <<11, 65, 114, 105, 109, 97, 13, 160>>, \* '\x0bArima\r\xa0'
     <<97, 114, 32, 105, 109, 97>>,          \* 'ar ima'
     <<79, 76, 83>>,                         \* 'OLS'
     <<28, 108, 115, 116, 109, 12>>,         \* '\x1clstm\x0c'
     <<115, 118, 114>>}                      \* 'svr'

\* float('inf'), and a finite score.
Inf == [inf |-> TRUE, v |-> 0]
Score(v) == [inf |-> FALSE, v |-> v]
\* score < best_score
Less(score, best_score) == best_score.inf \/ score < best_score.v

\* best_configuration = None
NoConfiguration == <<>>

\* Lines 287-288 are reached only when nothing raised before them in the try.
IsBetter(exc, score, best_score) == exc = "none" /\ Less(score, best_score)

\* The (p, d, m) the loops are at.
Configuration(g) ==
    <<g.grid.params[g.pi], g.grid.diffs[g.di], g.grid.ma_params[g.mi]>>
Configurations(grid) ==
    {<<grid.params[i], grid.diffs[j], grid.ma_params[k]>> :
       i \in 1..Len(grid.params), j \in 1..Len(grid.diffs),
       k \in 1..Len(grid.ma_params)}

\* The loop indices after the iteration at (pi, di, mi, fi); pi past the list
\* when the loops are over.
Advance(g) ==
    IF g.fi < Len(g.cv) THEN [g EXCEPT !.fi = g.fi + 1]
    ELSE IF g.mi < Len(g.grid.ma_params) THEN [g EXCEPT !.fi = 1, !.mi = g.mi + 1]
    ELSE IF g.di < Len(g.grid.diffs) THEN [g EXCEPT !.fi = 1, !.mi = 1, !.di = g.di + 1]
    ELSE [g EXCEPT !.fi = 1, !.mi = 1, !.di = 1, !.pi = g.pi + 1]

(* The samples: only column 0 of y is read by the sweep, and of X only its *)
(* length. Observation i is the finite value i + 1, except a non-finite    *)
(* one at position nan_at (if any): each value tells which row it is.      *)
Samples(n, nan_at) == [k \in 1..n |-> IF k = nan_at THEN NaN ELSE k]

GsInit ==
    \E n \in 1..MaxSamples, nan_at \in 0..MaxSamples, name \in ModelNames :
       /\ nan_at <= n
       /\ gs = [pc |-> "call", model_name |-> name, y |-> Samples(n, nan_at)]

\* The errors of a configuration's scored folds: none yet.
NoErrors == [sum |-> 0, cnt |-> 0]
\* The errors with one more scored fold.
AddError(e, s) == [sum |-> e.sum + s, cnt |-> e.cnt + 1]
\* The mean of the errors a is below the mean of b (both have scored folds).
MeanBelow(a, b) == a.sum * b.cnt < b.sum * a.cnt

\* cross_validate_model up to its dispatch: the name is normalised and
\* checked, the folds are built, and for 'arima' grid_search_arima is
\* entered (line 275).
CrossValidateModel ==
    /\ gs.pc = "call"
    /\ LET model_name == Strip(Lower(gs.model_name))
           split      == TimeSeriesSplit(Len(gs.y), NSplits)
       IN  gs' = IF model_name \notin SupportedModels
                 THEN [pc |-> "raise", model_name |-> model_name,
                       y |-> gs.y, exc |-> "ValueError", at |-> "model_name"]
                 ELSE IF split.raised # "none"
                 THEN [pc |-> "raise", model_name |-> model_name,
                       y |-> gs.y, exc |-> split.raised, at |-> "split"]
                 ELSE IF model_name = Arima
                 THEN [pc |-> "sweep", model_name |-> model_name,
                       y |-> gs.y, cv |-> CvFolds(split), grid |-> ArimaGrid,
                       refit |-> TRUE,
                       pi |-> 1, di |-> 1, mi |-> 1, fi |-> 1,
                       arima |-> None,
                       best_score |-> Inf,
                       best_configuration |-> NoConfiguration,
                       best_model |-> None, best_is_arima |-> FALSE,
                       nevals |-> 0, nfailed |-> 0, last |-> None,
                       errors |-> NoErrors, best_errors |-> NoErrors,
                       least_errors |-> NoErrors]
                 ELSE [pc |-> "library", model_name |-> model_name,
                       y |-> gs.y, cv |-> CvFolds(split)]
    /\ UNCHANGED <<bd, arima, call, ds>>

(* One pass of the body of `for (train_index, test_index) in cv`, lines    *)
(* 282-294, for the configuration and fold the loops are at; entering a    *)
(* configuration builds its instance first (line 279). The fit and the     *)
(* scoring raise as the data make them; a score is any error 1..MaxScore.  *)
(* best_model is the instance itself, so while it is the one being swept   *)
(* it changes with it. The rest records what was evaluated: nevals and     *)
(* nfailed count the pairs and those that raised, last is the pair just    *)
(* evaluated, errors are the scores of the configuration the loops are at, *)
(* best_errors those of best_configuration, and least_errors those of the  *)
(* finished configuration whose mean is least.                             *)
Evaluate ==
    /\ gs.pc = "sweep"
    /\ gs.pi <= Len(gs.grid.params)
    /\ \E s \in 1..MaxScore :
         LET cfg     == Configuration(gs)
             fresh   == gs.fi = 1
             self    == IF fresh THEN ArimaNew(cfg) ELSE gs.arima
             aliased == gs.best_is_arima /\ ~fresh
             fold    == gs.cv[gs.fi]
             y_train == Take(gs.y, fold.train)
             y_test  == Take(gs.y, fold.test)
             fitted  == ArimaFit(self, y_train)
             \* predict reads only the length of X_test[:, 0], that of y_test
             yhat    == ArimaPredict(fitted.self, Vector(y_test), FALSE)
             exc     == IF fitted.exc # "none" THEN fitted.exc
                        ELSE IF yhat.exc # "none" THEN yhat.exc
                        ELSE IF FitRaises(y_test) THEN "mean_squared_error"
                        ELSE "none"
             better  == IsBetter(exc, s, gs.best_score)
             next    == Advance(gs)
             errors  == IF exc = "none" THEN AddError(gs.errors, s)
                        ELSE gs.errors
             done    == gs.fi = Len(gs.cv)
         IN  /\ exc # "none" => s = 1
             /\ gs' = [next EXCEPT
                   !.arima = fitted.self,
                   !.best_score = IF better THEN Score(s) ELSE @,
                   !.best_configuration = IF better THEN cfg ELSE @,
                   !.best_is_arima = better \/ aliased,
                   !.best_model = IF better \/ aliased THEN fitted.self ELSE @,
                   !.nevals = @ + 1,
                   !.nfailed = IF exc = "none" THEN @ ELSE @ + 1,
                   !.last = [configuration |-> cfg, fold |-> gs.fi,
                             train |-> fold.train, test |-> fold.test,
                             exc |-> exc,
                             before |-> <<gs.best_score, gs.best_configuration>>],
                   !.errors = IF done THEN NoErrors ELSE errors,
                   !.best_errors =
                       IF better \/ gs.best_configuration = cfg THEN errors
                       ELSE @,
                   !.least_errors =
                       IF done /\ errors.cnt > 0
                            /\ (@.cnt = 0 \/ MeanBelow(errors, @))
                       THEN errors ELSE @]
    /\ UNCHANGED <<bd, arima, call, ds>>

(* best_model.fit(X, y) at line 296: unlike the sweep's fits, which pass   *)
(* the column y[:, 0], this one passes the 2-D y, so y_train_ is left      *)
(* holding y's rows (arrays of one element each) whether the fit raises or *)
(* not; the library reads the same series from them.                       *)
ArimaFitRows(self, y) ==
    LET r    == ArimaFit(self, y)
        rows == [k \in 1..Len(y) |-> <<y[k]>>]
        self_ == [r.self EXCEPT !.y_train_ = rows]
    IN  [r EXCEPT !.self = self_,
                  !.ret = IF r.exc = "none" THEN self_ ELSE None]

\* Lines 295-301: the best model is fitted on all of X, y (the fit may
\* raise, and nothing catches it), then the search returns. When best_model
\* is the instance the sweep ended on, arima is that same object.
FinishSearch ==
    /\ gs.pc = "sweep"
    /\ gs.pi > Len(gs.grid.params)
    /\ IF gs.best_model # None /\ gs.refit
       THEN LET r == ArimaFitRows(gs.best_model, gs.y)
            IN  gs' = [gs EXCEPT !.pc = IF r.exc = "none" THEN "return"
                                        ELSE "raise",
                                 !.best_model = r.self,
                                 !.arima = IF gs.best_is_arima THEN r.self
                                           ELSE @]
       ELSE gs' = [gs EXCEPT !.pc = "return"]
    /\ UNCHANGED <<bd, arima, call, ds>>

\* Lines 353-357: the other models hand the same cv to GridSearchCV.
LibrarySearch ==
    /\ gs.pc = "library"
    /\ gs' = [gs EXCEPT !.pc = "return"]
    /\ UNCHANGED <<bd, arima, call, ds>>

\* ------------------------- get_processed_dataset, get_preprocessed_datasets

\* Most rows of a ticker's table, and the largest value of a cell.
MaxRows == 5
MaxPrice == 2
\* train_size = .8, as the fraction 4 / 5.
TrainSizeNum == 4
TrainSizeDen == 5
\* COLUMNS.index('adj_close')
AdjClose == 0

SeqMin(q) == CHOOSE v \in {q[k] : k \in 1..Len(q)} : \A k \in 1..Len(q) : v <= q[k]
SeqMax(q) == CHOOSE v \in {q[k] : k \in 1..Len(q)} : \A k \in 1..Len(q) : v >= q[k]
Column(rows, c) == [k \in 1..Len(rows) |-> rows[k][c]]

\* MinMaxScaler().fit(rows): the per-column minimum and maximum of the rows.
ScalerFit(rows, ncols) ==
    [data_min |-> [c \in 1..ncols |-> SeqMin(Column(rows, c))],
     data_max |-> [c \in 1..ncols |-> SeqMax(Column(rows, c))]]

\* scaler.partial_fit(rows) on a scaler that has seen rows before.
ScalerPartialFit(scaler, rows, ncols) ==
    LET f == ScalerFit(rows, ncols)
    IN  [data_min |-> [c \in 1..ncols |-> Min(scaler.data_min[c], f.data_min[c])],
         data_max |-> [c \in 1..ncols |-> Max(scaler.data_max[c], f.data_max[c])]]

(* scaler.transform(rows) for feature_range (0, 1): (x - min) / (max - min) *)
(* kept as the fraction [num, den]; a column whose range is 0 is divided   *)
(* by 1.                                                                   *)
ScalerTransform(scaler, rows, ncols) ==
    [k \in 1..Len(rows) |-> [c \in 1..ncols |->
        [num |-> rows[k][c] - scaler.data_min[c],
         den |-> IF scaler.data_max[c] = scaler.data_min[c] THEN 1
                 ELSE scaler.data_max[c] - scaler.data_min[c]]]]

AsTable(rows, ncols) == [data |-> rows, ndim |-> 2, ncols |-> ncols]

\* int(train_size * X.shape[0])
CutPoint(n) == (TrainSizeNum * n) \div TrainSizeDen

\* X.reshape(X.shape[0], lookback + 1, X.shape[1]) of a 2-D X, lookback = 0.
AddTimeAxis(X) == [k \in 1..Len(X) |-> <<X[k]>>]

\* Lines 389-409 and 433-453: windows of the scaled table, cut at cut_point.
SplitDataset(scaled, ncols, shift, lookback, lstm) ==
    LET b   == build_dataset(AsTable(scaled, ncols), shift, AdjClose, lookback)
        cut == CutPoint(Len(b.x))
        tr  == Slice(b.x, 0, cut)
        te  == Slice(b.x, cut, Len(b.x))
    IN  [X_train |-> IF lstm /\ lookback = 0 THEN AddTimeAxis(tr) ELSE tr,
         y_train |-> Slice(b.y, 0, cut),
         X_test  |-> IF lstm /\ lookback = 0 THEN AddTimeAxis(te) ELSE te,
         y_test  |-> Slice(b.y, cut, Len(b.y))]

\* preprocess_data(df): the scaler is fitted on every row of df, then applied.
preprocess_data(rows, ncols) ==
    LET scaler == ScalerFit(rows, ncols)
    IN  [df |-> ScalerTransform(scaler, rows, ncols), scaler |-> scaler]

\* get_processed_dataset without a date range, on the table load_data gave.
get_processed_dataset(rows, ncols, shift, lookback, lstm) ==
    LET p == preprocess_data(rows, ncols)
    IN  [split |-> SplitDataset(p.df, ncols, shift, lookback, lstm),
         scaler |-> p.scaler]

(* get_preprocessed_datasets on the tables load_data gave for the tickers: *)
(* one scaler is partially fitted on every table in turn, then every table *)
(* is transformed with it and split.                                       *)
RECURSIVE PartialFitAll(_, _, _)
PartialFitAll(dfs, k, ncols) ==
    IF k = 1 THEN ScalerFit(dfs[1], ncols)
    ELSE ScalerPartialFit(PartialFitAll(dfs, k - 1, ncols), dfs[k], ncols)

get_preprocessed_datasets(dfs, ncols, shift, lookback, lstm) ==
    LET scaler == PartialFitAll(dfs, Len(dfs), ncols)
    IN  [ret |-> [k \in 1..Len(dfs) |->
                    SplitDataset(ScalerTransform(scaler, dfs[k], ncols),
                                 ncols, shift, lookback, lstm)],
         scaler |-> scaler]

\* The one-column tables of 1..len rows a ticker's file may hold.
PriceTables(len) == UNION {[1..n -> {<<v>> : v \in 0..MaxPrice}] : n \in 1..len}

DsInit ==
    \/ \E t \in PriceTables(MaxRows), shift \in 1..MaxShift,
          lookback \in 0..1, lstm \in BOOLEAN :
         ds = [pc |-> "call", op |-> "get_processed_dataset", dfs |-> <<t>>,
               shift |-> shift, lookback |-> lookback, lstm |-> lstm]
    \/ \E t1 \in PriceTables(MaxRows - 2), t2 \in PriceTables(MaxRows - 2),
          lstm \in BOOLEAN :
         ds = [pc |-> "call", op |-> "get_preprocessed_datasets",
               dfs |-> <<t1, t2>>, shift |-> 1, lookback |-> 0, lstm |-> lstm]

GetProcessedDataset ==
    /\ ds.pc = "call"
    /\ ds.op = "get_processed_dataset"
    /\ LET r == get_processed_dataset(ds.dfs[1], 1, ds.shift, ds.lookback, ds.lstm)
       IN  ds' = [ds EXCEPT !.pc = "return"] @@ [ret |-> <<r.split>>, scaler |-> r.scaler]
    /\ UNCHANGED <<bd, arima, call, gs>>

GetPreprocessedDatasets ==
    /\ ds.pc = "call"
    /\ ds.op = "get_preprocessed_datasets"
    /\ LET r == get_preprocessed_datasets(ds.dfs, 1, ds.shift, ds.lookback, ds.lstm)
       IN  ds' = [ds EXCEPT !.pc = "return"] @@ [ret |-> r.ret, scaler |-> r.scaler]
    /\ UNCHANGED <<bd, arima, call, gs>>

ArimaIdle == [pc |-> "idle"]
CallIdle == [op |-> "idle"]
GsIdle == [pc |-> "idle"]
DsIdle == [pc |-> "idle"]

InitWindows ==
    /\ BdInit
    /\ arima = ArimaIdle /\ call = CallIdle /\ gs = GsIdle /\ ds = DsIdle

NextWindows == BuildDataset

SpecWindows == InitWindows /\ [][NextWindows]_vars

InitArima ==
    /\ ArimaInit
    /\ bd = BdIdle /\ gs = GsIdle /\ ds = DsIdle

NextArima == Fit \/ PredictKeep \/ PredictRefit \/ Summary

SpecArima == InitArima /\ [][NextArima]_vars

InitSearch ==
    /\ GsInit
    /\ bd = BdIdle /\ arima = ArimaIdle /\ call = CallIdle /\ ds = DsIdle

NextSearch == CrossValidateModel \/ Evaluate \/ FinishSearch \/ LibrarySearch

SpecSearch == InitSearch /\ [][NextSearch]_vars

InitData ==
    /\ DsInit
    /\ bd = BdIdle /\ arima = ArimaIdle /\ call = CallIdle /\ gs = GsIdle

NextData == GetProcessedDataset \/ GetPreprocessedDatasets

SpecData == InitData /\ [][NextData]_vars

\* ------------------------------------------------- build_dataset: properties

\* The row a cell of Table was copied from.
RowOf(cell) == cell \div 10

\* The cells of row r of the table, as build_dataset was given them.
RowAt(args, r) == args.values.data[r + 1]

BdReturned == bd.pc = "return"
BdLen == Len(bd.args.values.data)

\* The table row a context ends with, read off the returned sample x[k].
ContextEndIndex(args, xk) ==
    IF args.lookback = 0 THEN RowOf(xk[1])
    ELSE IF args.values.ndim = 2 THEN RowOf(xk[Len(xk)][1])
    ELSE RowOf(xk[Len(xk)])

\* The table row a target was copied from, read off the returned y[k].
TargetIndex(args, yk) ==
    IF args.values.ndim = 2 /\ (args.price_column = ALL \/ args.lookback = 0)
    THEN RowOf(yk[1])
    ELSE RowOf(yk)

(* C1: for every shift >= 1, lookback >= 0 and feature table of length L,  *)
(* build_dataset returns exactly max(0, L - 2*shift - lookback) samples    *)
(* (as many targets as contexts), and in every sample the target's row     *)
(* index is the context's last row index plus shift and lies inside the    *)
(* table. A 2-D feature table never makes the call raise.                  *)
C1_SampleCount ==
    /\ (bd.pc # "call" /\ bd.args.values.ndim = 2) => BdReturned
    /\ BdReturned =>
         /\ Len(bd.ret.x) = Max(0, BdLen - 2 * bd.args.shift - bd.args.lookback)
         /\ Len(bd.ret.y) = Len(bd.ret.x)
         /\ \A k \in 1..Len(bd.ret.x) :
              /\ TargetIndex(bd.args, bd.ret.y[k])
                   = ContextEndIndex(bd.args, bd.ret.x[k]) + bd.args.shift
              /\ TargetIndex(bd.args, bd.ret.y[k]) \in 0..(BdLen - 1)

\* A 2-D table with lookback and a horizon of two rows gave several samples.
C1_Witness ==
    /\ BdReturned
    /\ bd.args.values.ndim = 2
    /\ bd.args.shift = 2
    /\ bd.args.lookback >= 1
    /\ Len(bd.ret.x) >= 2

\* The context the sample of position i must hold: rows i-lookback..i.
ExpectedX(args, i) ==
    IF args.lookback = 0 THEN RowAt(args, i)
    ELSE [j \in 1..(args.lookback + 1) |-> RowAt(args, i - args.lookback + j - 1)]

\* The target the sample of position i must hold: row i+shift or its column.
ExpectedY(args, i) ==
    IF args.values.ndim = 1 \/ args.price_column = ALL
    THEN RowAt(args, i + args.shift)
    ELSE IF args.lookback = 0
    THEN <<RowAt(args, i + args.shift)[args.price_column + 1]>>
    ELSE RowAt(args, i + args.shift)[args.price_column + 1]

\* The returned samples are those of positions lookback..last, in order.
SamplesCover(last) ==
    LET args == bd.args
        n    == Max(0, last - args.lookback + 1)
    IN  /\ Len(bd.ret.x) = n
        /\ Len(bd.ret.y) = n
        /\ \A k \in 1..n :
             /\ bd.ret.x[k] = ExpectedX(args, args.lookback + k - 1)
             /\ bd.ret.y[k] = ExpectedY(args, args.lookback + k - 1)

(* C7 as the spec states it: one sample for each context-end position i    *)
(* from lookback to len(table) - shift - 1 inclusive, in increasing order. *)
C7_AsStated ==
    BdReturned => SamplesCover(BdLen - bd.args.shift - 1)

(* C7, amended: one sample for each context-end position i from lookback   *)
(* to len(table) - 2*shift - 1 inclusive, in increasing order of i; the    *)
(* sample's context is rows i-lookback..i (lookback+1 rows) and its target *)
(* is row i+shift, or that row's price_column component.                   *)
C7_Positions ==
    BdReturned => SamplesCover(BdLen - 2 * bd.args.shift - 1)

\* A single target column, with lookback, gave several samples.
C7_Witness ==
    /\ BdReturned
    /\ bd.args.values.ndim = 2
    /\ bd.args.price_column = 1
    /\ bd.args.lookback = 2
    /\ Len(bd.ret.x) >= 3


\* ------------------------------------------------ ArimaRegressor: properties

IsPredict == call.op = "predict"
IsBatchRefit == IsPredict /\ call.refit /\ call.X.kind = "seq"

(* predict(x, refit=True) called once per element of X, in order, from     *)
(* self; the calls stop at the first one that raises. rets are the values  *)
(* the calls returned.                                                     *)
RECURSIVE SequentialCalls(_, _, _, _)
SequentialCalls(self, X, k, rets) ==
    IF k > Len(X)
    THEN [self |-> self, rets |-> rets, exc |-> "none"]
    ELSE LET r == ArimaPredict(self, Scalar(X[k]), TRUE)
         IN  IF r.exc # "none"
             THEN [self |-> r.self, rets |-> rets, exc |-> r.exc]
             ELSE SequentialCalls(r.self, X, k + 1, Append(rets, r.ret))

(* C2: on an instance in the fit state with history H, one batch call      *)
(* predict(X, refit=True) returns, element for element, the forecasts that *)
(* one call predict(x, refit=True) per element of X returns, and after     *)
(* either the stored history is H followed by the elements of X in order   *)
(* (the two leave the same instance). When a refit raises at some element  *)
(* both raise there, with the same forecasts taken up to it.               *)
C2_BatchEqualsSequential ==
    (IsBatchRefit /\ call.pre.model_fit # None) =>
        LET s == SequentialCalls(call.pre, call.X.v, 1, <<>>)
        IN  /\ s.exc = call.exc
            /\ s.self = arima
            /\ call.exc = "none" =>
                 /\ Len(call.ret) = Len(call.X.v)
                 /\ call.ret = s.rets
                 /\ arima.y_train_ = call.pre.y_train_ \o call.X.v
            /\ call.exc # "none" =>
                 /\ Len(call.partial) = Len(s.rets) + 1
                 /\ SubSeq(call.partial, 1, Len(s.rets)) = s.rets

\* A batch call with two different observations returned.
C2_Witness ==
    /\ IsBatchRefit
    /\ call.exc = "none"
    /\ Len(call.X.v) = 2
    /\ call.X.v[1] # call.X.v[2]
    /\ Len(call.pre.y_train_) >= 2

\* The forecast of a handle fitted on exactly the series endog, order of self.
ForecastFrom(self, endog) ==
    Forecast([endog |-> endog, order |-> OrderOf(self)], 1)

(* C3: in predict(X, refit=True) the i-th returned forecast is computed    *)
(* from a model fitted on exactly the initial history plus the elements    *)
(* 0..i-1 of X: it is taken before X[i] is appended and after the refit    *)
(* that followed X[i-1], and depends on no later element.                  *)
C3_ForecastFromPrefix ==
    (IsPredict /\ call.refit /\ call.exc = "none") =>
        IF call.X.kind = "scalar"
        THEN call.ret = ForecastFrom(call.pre, call.pre.y_train_)
        ELSE \A i \in 1..Len(call.X.v) :
                call.ret[i] = ForecastFrom(call.pre,
                    call.pre.y_train_ \o SubSeq(call.X.v, 1, i - 1))

(* C8: predict raises NotFittedError whenever no internal fit has ever     *)
(* succeeded on the instance, with refit False or True, returning nothing  *)
(* and leaving the instance (its stored history with it) as it was; once   *)
(* an internal fit has succeeded predict never raises NotFittedError.      *)
C8_NotFitted ==
    IsPredict =>
        /\ (call.exc = "NotFittedError") <=> ~call.ever_pre
        /\ call.exc = "NotFittedError" =>
             /\ call.ret = None
             /\ arima = call.pre
             /\ arima.y_train_ = call.pre.y_train_

\* predict(X, refit=True) raised NotFittedError after a fit that had failed.
C8_Witness ==
    /\ IsPredict
    /\ call.refit
    /\ call.exc = "NotFittedError"
    /\ call.pre.y_train_ # <<>>

(* C9: on a fitted instance predict(X, refit=False) returns a vector of    *)
(* exactly len(X) forecasts, leaves the stored history and the fitted      *)
(* handle (the whole instance) unchanged, and returns the same for every   *)
(* X of that length.                                                       *)
C9_ReadOnlyForecast ==
    (IsPredict /\ ~call.refit /\ call.X.kind = "seq"
       /\ call.pre.model_fit # None) =>
        /\ call.exc = "none"
        /\ Len(call.ret) = Len(call.X.v)
        /\ arima = call.pre
        /\ \A v \in PredictSeqs :
             Len(v) = Len(call.X.v) =>
               ArimaPredict(call.pre, Vector(v), FALSE).ret = call.ret

\* A two-step forecast was returned after an earlier refit had grown the history.
C9_Witness ==
    /\ IsPredict
    /\ ~call.refit
    /\ call.exc = "none"
    /\ Len(call.X.v) = 2
    /\ Len(arima.y_train_) >= 4

\* The handle a fit on exactly the stored history and the order of self yields.
HandleOf(self) == [endog |-> self.y_train_, order |-> OrderOf(self)]

(* C11: whenever the instance holds a fitted-model handle, the handle was  *)
(* computed from exactly the current stored history y_train_ and the       *)
(* (p, d, q) order of the instance, after any sequence of fit and predict  *)
(* calls, those in which an internal fit raised included.                  *)
C11_HandleMatchesHistory ==
    arima.model_fit # None => arima.model_fit = HandleOf(arima)

(* C11, the calls in which every internal fit succeeded: after such a call *)
(* the handle is the one fitted on the stored history.                     *)
C11_HandleAfterSuccess ==
    (call.op \in {"fit", "predict"} /\ call.exc = "none"
       /\ (call.op = "predict" => call.pre.model_fit = HandleOf(call.pre))) =>
        /\ arima.model_fit # None
        /\ arima.model_fit = HandleOf(arima)

\* ------------------------------------------------- grid search: properties

\* The sweep of grid_search_arima was entered.
InSearch == gs.pc = "sweep" \/ (gs.pc \in {"return", "raise"} /\ "nevals" \in DOMAIN gs)
\* The folds were built.
HasCv == gs.pc \in {"sweep", "library"} \/ (gs.pc \in {"return", "raise"} /\ "cv" \in DOMAIN gs)

\* The k-th configuration x fold pair of the three nested loops over the grid
\* and the loop over the folds.
PairAt(grid, nfolds, k) ==
    LET c == (k - 1) \div nfolds
        M == Len(grid.ma_params)
        D == Len(grid.diffs)
    IN  [configuration |-> <<grid.params[(c \div (M * D)) + 1],
                             grid.diffs[((c \div M) % D) + 1],
                             grid.ma_params[(c % M) + 1]>>,
         fold |-> ((k - 1) % nfolds) + 1]
NumPairs(grid, nfolds) ==
    Len(grid.params) * Len(grid.diffs) * Len(grid.ma_params) * nfolds

(* C4: grid_search_arima returns as best_configuration the (p, d, m) whose *)
(* mean error over its successfully evaluated folds is minimal among the   *)
(* configurations with at least one successful fold, and best_score is     *)
(* that mean error.                                                        *)
C4_MinimalMean ==
    (InSearch /\ gs.pc = "return") =>
        IF gs.least_errors.cnt = 0 THEN gs.best_configuration = NoConfiguration
        ELSE /\ gs.best_configuration # NoConfiguration
             /\ gs.best_errors.cnt > 0
             /\ ~MeanBelow(gs.least_errors, gs.best_errors)
             /\ ~gs.best_score.inf
             /\ gs.best_score.v * gs.best_errors.cnt = gs.best_errors.sum

(* The sweep contains the failures of its pairs: a pair that raised left   *)
(* best score and configuration as they were; the pairs are evaluated in   *)
(* the loops' order whatever failed before; and the loops are over, and    *)
(* the call ends by return or by exception, only when every pair has been  *)
(* evaluated.                                                              *)
SweepContained ==
    InSearch =>
        /\ gs.nevals > 0 =>
             /\ gs.last.configuration
                  = PairAt(gs.grid, Len(gs.cv), gs.nevals).configuration
             /\ gs.last.fold = PairAt(gs.grid, Len(gs.cv), gs.nevals).fold
             /\ gs.last.exc # "none" =>
                  <<gs.best_score, gs.best_configuration>> = gs.last.before
        /\ gs.nevals <= NumPairs(gs.grid, Len(gs.cv))
        /\ gs.pc = "sweep" =>
             (gs.pi > Len(gs.grid.params)
                <=> gs.nevals = NumPairs(gs.grid, Len(gs.cv)))
        /\ gs.pc \in {"return", "raise"} =>
             gs.nevals = NumPairs(gs.grid, Len(gs.cv))

\* The call of grid_search_arima ended by an exception.
SearchAborted == InSearch /\ gs.pc = "raise"

(* C5: an exception raised by a configuration x fold evaluation (fit,      *)
(* predict or scoring) is caught and the pair is left out of the scoring   *)
(* (best score and configuration stay as they were); every remaining pair  *)
(* is still evaluated, in the loops' order; and the search call never      *)
(* ends by an exception, whatever candidates failed.                       *)
C5_FailuresContained ==
    /\ SweepContained
    /\ ~SearchAborted

\* The indices of a fold's block, as a set.
Indices(block) == {block[k] : k \in 1..Len(block)}

(* C10: cross_validate_model builds 3 folds; in every fold every train     *)
(* index is strictly smaller than every test index; the test blocks are    *)
(* non-empty, pairwise non-overlapping and strictly increasing in position *)
(* from fold to fold; and grid_search_arima evaluates each pair on exactly *)
(* the train and test indices of its fold.                                 *)
C10_FoldsOrdered ==
    HasCv =>
        /\ Len(gs.cv) = NSplits
        /\ \A k \in 1..Len(gs.cv) :
             /\ Indices(gs.cv[k].test) # {}
             /\ Indices(gs.cv[k].train) \cup Indices(gs.cv[k].test)
                  \subseteq 0..(Len(gs.y) - 1)
             /\ \A a \in Indices(gs.cv[k].train), b \in Indices(gs.cv[k].test) :
                  a < b
        /\ \A j \in 1..Len(gs.cv), k \in 1..Len(gs.cv) :
             j < k => \A a \in Indices(gs.cv[j].test),
                         b \in Indices(gs.cv[k].test) : a < b
        /\ (InSearch /\ gs.nevals > 0) =>
             /\ gs.last.train = gs.cv[gs.last.fold].train
             /\ gs.last.test = gs.cv[gs.last.fold].test

\* The sweep evaluated a pair on folds whose test blocks hold several rows.
C10_Witness ==
    /\ InSearch
    /\ gs.nevals >= 2
    /\ Len(gs.cv[1].test) >= 2
    /\ Len(gs.cv[1].train) >= 2


\* ------------------------------------------------ dataset split: properties

\* The table rows the samples first..last (0-based) of a table are made of:
\* each sample's context rows and its target row.
SampleRows(first, last, shift, lookback) ==
    UNION {(k..(k + lookback)) \cup {k + lookback + shift} : k \in first..last}

\* The rows of a len-row table found only in its test suffix.
TestOnlyRows(len, shift, lookback) ==
    LET n   == Max(0, len - 2 * shift - lookback)
        cut == CutPoint(n)
    IN  SampleRows(cut, n - 1, shift, lookback)
          \ SampleRows(0, cut - 1, shift, lookback)

\* Tables that differ from dfs at most in rows found only in a test suffix.
SameButTestOnly(dfs, other, shift, lookback) ==
    /\ Len(other) = Len(dfs)
    /\ \A t \in 1..Len(dfs) :
         /\ Len(other[t]) = Len(dfs[t])
         /\ \A r \in 1..Len(dfs[t]) :
              (r - 1) \notin TestOnlyRows(Len(dfs[t]), shift, lookback)
                 => other[t][r] = dfs[t][r]

ScalerOf(op, dfs, shift, lookback, lstm) ==
    IF op = "get_processed_dataset"
    THEN get_processed_dataset(dfs[1], 1, shift, lookback, lstm).scaler
    ELSE get_preprocessed_datasets(dfs, 1, shift, lookback, lstm).scaler

(* C6: in get_processed_dataset and get_preprocessed_datasets the fitted   *)
(* scaler depends only on rows eligible for the training split: whatever   *)
(* values the rows found only in the test suffix hold, the fitted scaler   *)
(* is the same.                                                            *)
C6_ScalerIgnoresTestRows ==
    ds.pc = "return" =>
        \A other \in [1..Len(ds.dfs) -> PriceTables(MaxRows)] :
           SameButTestOnly(ds.dfs, other, ds.shift, ds.lookback) =>
              ScalerOf(ds.op, other, ds.shift, ds.lookback, ds.lstm) = ds.scaler


====
